---- MODULE Spec2Model ----
(***************************************************************************)
(* A model of limitless-usage-stats.py: the prompts that select the field  *)
(* and the top cut, the usage aggregation, the ranking and the report, and *)
(* the point selection and label placement of the usage graph.             *)
(*                                                                         *)
(* A Python dict is a sequence of <<key, value>> pairs in insertion order. *)
(* A standings row is [placing, rounds, roster]; a roster is the sequence  *)
(* of the team sheet's entries, [name, item, ability, tera, attacks].      *)
(* Rates are exact fractions <<numerator, denominator>>.                   *)
(***************************************************************************)
EXTENDS Integers, Sequences, FiniteSets, TLC

VARIABLES
    pc,                     \* the position of main
    parsed_standings,       \* the rows of the standings, in placing order
    day_one_rounds,         \* the tournament's number of day-one Swiss rounds
    answer,                 \* the last line read by input()
    retries,                \* answers the running prompt loop has rejected
    field_size,             \* get_teams: field_size
    teams,                  \* main: teams
    top_cut_size,           \* get_top_cut_teams: top_cut_size
    top_cut_teams,          \* main: top_cut_teams
    placing,                \* calculate_usage_statistics: enumerate index
    pokemon_used,           \* calculate_usage_statistics: the open team sheet
    pkmn,                   \* calculate_usage_statistics: entries done of it
    all_pokemon_statistics, \* calculate_usage_statistics: the table
    all_usage_stats,        \* main: all_usage_stats
    top_cut_usage_stats,    \* main: top_cut_usage_stats
    tournament_usage,       \* main: tournament_usage
    usage_file,             \* the text report
    all_json,               \* the full-field snapshot
    top_cut_json,           \* the top-cut snapshot
    usage_points,           \* create_graph: usage_points
    index,                  \* create_graph: the label loop's index
    label_padding,          \* create_graph: label_padding, in 1/10000
    labels,                 \* create_graph: what ax.text has drawn
    plots                   \* the images saved

vars == <<pc, parsed_standings, day_one_rounds, answer, retries, field_size,
          teams, top_cut_size, top_cut_teams, placing, pokemon_used, pkmn,
          all_pokemon_statistics, all_usage_stats, top_cut_usage_stats,
          tournament_usage, usage_file, all_json, top_cut_json, usage_points,
          index, label_padding, labels, plots>>

----------------------------------------------------------------------------
(* Bounds *)

MaxTeams == 2
MaxRoster == 2
MaxRetries == 1

None == "None"

----------------------------------------------------------------------------
(* Strings compare by code point; StrOrder lists every string of the model *)
(* in that order.                                                          *)

StrOrder ==
    <<"Amoonguss", "Choice Specs", "Fairy", "Flutter Mane", "Iron Hands",
      "Moonblast", "Pollen Puff", "Protosynthesis", "Quark Drive", "Rage Powder",
      "Regenerator", "Rocky Helmet", "Sitrus Berry", "Spore", "Urshifu",
      "Water", "default">>

StrRank(s) == CHOOSE i \in 1..Len(StrOrder) : StrOrder[i] = s

StrLess(a, b) == StrRank(a) < StrRank(b)

----------------------------------------------------------------------------
(* dict *)

Keys(d) == {d[i][1] : i \in 1..Len(d)}

KeySeq(d) == [i \in 1..Len(d) |-> d[i][1]]

Has(d, key) == \E i \in 1..Len(d) : d[i][1] = key

Pos(d, key) == CHOOSE i \in 1..Len(d) : d[i][1] = key

Get(d, key) == d[Pos(d, key)][2]

GetOr(d, key, default) == IF Has(d, key) THEN Get(d, key) ELSE default

RECURSIVE SumValues(_)
SumValues(d) == IF d = <<>> THEN 0 ELSE d[1][2] + SumValues(Tail(d))

add_or_update_dict_overwrite(dict, key) ==
    IF Has(dict, key)
    THEN [dict EXCEPT ![Pos(dict, key)] = <<key, 1>>]
    ELSE Append(dict, <<key, 1>>)

add_or_update_dict(dict, key) ==
    IF Has(dict, key)
    THEN [dict EXCEPT ![Pos(dict, key)] = <<key, @[2] + 1>>]
    ELSE Append(dict, <<key, 1>>)

RECURSIVE AddEach(_, _)
AddEach(dict, keys) ==
    IF keys = <<>> THEN dict
    ELSE AddEach(add_or_update_dict(dict, Head(keys)), Tail(keys))

----------------------------------------------------------------------------
(* The team sheets *)

Amoonguss ==
    [name |-> "Amoonguss", item |-> "Rocky Helmet", ability |-> "Regenerator",
     tera |-> "Water", attacks |-> <<"Spore", "Rage Powder">>]

AmoongussBerry ==
    [name |-> "Amoonguss", item |-> "Sitrus Berry", ability |-> "Regenerator",
     tera |-> None, attacks |-> <<"Spore", "Pollen Puff">>]

FlutterMane ==
    [name |-> "Flutter Mane", item |-> "Choice Specs", ability |-> "Protosynthesis",
     tera |-> "Fairy", attacks |-> <<"Moonblast", "Moonblast">>]

IronHands ==
    [name |-> "Iron Hands", item |-> "Sitrus Berry", ability |-> "Quark Drive",
     tera |-> None, attacks |-> <<>>]

Entries == {Amoonguss, FlutterMane, IronHands}

Names == {e.name : e \in Entries}

SeqsUpTo(S, n) == UNION {[1..k -> S] : k \in 0..n}

\* A team sheet lists each Pokemon once (the species clause).
Rosters ==
    {r \in SeqsUpTo(Entries, MaxRoster) :
        /\ Len(r) >= 1
        /\ \A i, j \in 1..Len(r) : i # j => r[i].name # r[j].name}

get_pokemon_name(pokemon) == pokemon.name

PokemonStats ==
    [count |-> 0, item |-> <<>>, ability |-> <<>>, tera |-> <<>>,
     attacks |-> <<>>, teammates |-> <<>>, placings |-> <<>>]

NamesOf(used) == [i \in 1..Len(used) |-> get_pokemon_name(used[i])]

Teammates_after(used, i) ==
    LET pokemon_name == get_pokemon_name(used[i])
    IN  SelectSeq(SubSeq(NamesOf(used), i + 1, Len(used)),
                  LAMBDA n : ~(n = pokemon_name))

Teammates(used, i) ==
    LET pokemon_name == get_pokemon_name(used[i])
    IN  SelectSeq(NamesOf(used), LAMBDA n : ~(n = pokemon_name))

\* Line 229
IncrementCount_once(pokemon_stats) == 1

IncrementCount(pokemon_stats) == pokemon_stats.count + 1

Tera(pokemon) == IF pokemon.tera = None THEN "default" ELSE pokemon.tera

\* The body of the loop over pokemon_used, applied to its i-th entry.
AddPokemon(table, used, i, place) ==
    LET pokemon == used[i]
        pokemon_name == get_pokemon_name(pokemon)
        table1 == IF Has(table, pokemon_name) THEN table
                  ELSE Append(table, <<pokemon_name, PokemonStats>>)
        s == Get(table1, pokemon_name)
        s1 == [count |-> IncrementCount(s),
               item |-> add_or_update_dict(s.item, pokemon.item),
               ability |-> add_or_update_dict(s.ability, pokemon.ability),
               tera |-> add_or_update_dict(s.tera, Tera(pokemon)),
               attacks |-> AddEach(s.attacks, pokemon.attacks),
               teammates |-> AddEach(s.teammates, Teammates(used, i)),
               placings |-> Append(s.placings, place + 1)]
    IN  [table1 EXCEPT ![Pos(table1, pokemon_name)] = <<pokemon_name, s1>>]

----------------------------------------------------------------------------
(* sorted(): a stable sort.  Before(x, y) says that x's key is strictly   *)
(* before y's in the order asked for; equal keys keep their order.         *)

StableSort(seq, before) ==
    LET n == Len(seq)
        rank == [i \in 1..n |-> 1 + Cardinality({j \in 1..n :
                        \/ before[j][i]
                        \/ (~before[i][j] /\ j < i)})]
    IN  [p \in 1..n |-> seq[CHOOSE i \in 1..n : rank[i] = p]]

\* Python's order of the tuples (int, str).
TupleLess(a, b) == a[1] < b[1] \/ (a[1] = b[1] /\ StrLess(a[2], b[2]))

sort_by_usage_only(item) == <<0 - item[2].count, StrOrder[1]>>

sort_by_usage_then_alphabetical(item) == <<0 - item[2].count, item[1]>>

Ranked(usage) ==
    StableSort(usage, [i \in 1..Len(usage) |-> [j \in 1..Len(usage) |->
        TupleLess(sort_by_usage_then_alphabetical(usage[i]),
                  sort_by_usage_then_alphabetical(usage[j]))]])

TournamentUsage(tcs, top_cut_usage, size, all_usage) ==
    [top_cut_size |-> tcs, top_cut_usage |-> Ranked(top_cut_usage),
     size |-> size, all_usage |-> Ranked(all_usage)]

\* sorted(d.items(), key=lambda item: (item[1], item[0]), reverse=True)
order_dict_by_count(d) ==
    StableSort(d, [i \in 1..Len(d) |-> [j \in 1..Len(d) |->
        TupleLess(<<d[j][2], d[j][1]>>, <<d[i][2], d[i][1]>>)]])

----------------------------------------------------------------------------
(* The report.  A percentage is kept in hundredths of a percent.           *)

\* round(100 * a / b, 2), halves to the even neighbour
get_percentage(a, b) ==
    LET q == (10000 * a) \div b
        r == (10000 * a) % b
    IN  IF 2 * r < b THEN q
        ELSE IF 2 * r > b THEN q + 1
        ELSE IF q % 2 = 0 THEN q ELSE q + 1

get_stat(i, name, count, total) ==
    [number |-> i + 1, name |-> name,
     percentage |-> get_percentage(count, total), count |-> count]

write_dict_stat(dict, total) ==
    LET o == order_dict_by_count(dict)
    IN  [i \in 1..Len(o) |-> get_stat(i - 1, o[i][1], o[i][2], total)]

write_usage_stats(usage_stats, num_teams) ==
    [i \in 1..Len(usage_stats) |->
        LET pokemon == usage_stats[i][1]
            pokemon_stats == usage_stats[i][2]
        IN  [line |-> get_stat(i - 1, pokemon, pokemon_stats.count, num_teams),
             Ability |-> write_dict_stat(pokemon_stats.ability, pokemon_stats.count),
             Tera |-> write_dict_stat(pokemon_stats.tera, pokemon_stats.count),
             Item |-> write_dict_stat(pokemon_stats.item, pokemon_stats.count),
             Attacks |-> write_dict_stat(pokemon_stats.attacks, pokemon_stats.count),
             Teammates |-> write_dict_stat(pokemon_stats.teammates, pokemon_stats.count),
             Placings |-> pokemon_stats.placings]]

\* jsonpickle.encode of a dict: its members, in the dict's order
JsonEncode(d) == [i \in 1..Len(d) |-> [key |-> d[i][1], value |-> d[i][2]]]

----------------------------------------------------------------------------
(* The prompts.  input() returns a line; int() parses it or raises.        *)

Numerals == <<"0", "1", "2", "3", "4", "5", "6">>

Answers == {"", "abc", "-1"} \cup {Numerals[k + 1] : k \in 0..(MaxTeams + 1)}

IsInt(line) == line = "-1" \/ \E k \in 1..Len(Numerals) : Numerals[k] = line

int(line) ==
    IF line = "-1" THEN 0 - 1
    ELSE (CHOOSE k \in 1..Len(Numerals) : Numerals[k] = line) - 1

Min(a, b) == IF a < b THEN a ELSE b

Max(a, b) == IF a > b THEN a ELSE b

\* seq[:n]
Slice_from(seq, n) == SubSeq(seq, Min(Max(n, 0), Len(seq)) + 1, Len(seq))

Slice(seq, n) ==
    IF n >= 0 THEN SubSeq(seq, 1, Min(n, Len(seq)))
    ELSE SubSeq(seq, 1, Max(Len(seq) + n, 0))

\* get_teams, line 153
field_size_rejected(n) == n <= 0

\* get_top_cut_teams, line 189
top_cut_size_rejected_negative(n, num_teams) == n < 0 \/ n > num_teams

top_cut_size_rejected(n, num_teams) == n <= 0 \/ n > num_teams

----------------------------------------------------------------------------
(* The graph.  A rate a / b is the pair <<a, b>>; a length is in 1/10000.  *)

DEFAULT_LABEL_PADDING == 15
LABEL_PADDING_INCREMENT == 25
POINT_DISTANCE_LABEL_ADJUSTMENT_THRESHOLD == 100

RatLess(a, b) == a[1] * b[2] < b[1] * a[2]

RatEq(a, b) == a[1] * b[2] = b[1] * a[2]

Abs(x) == IF x < 0 THEN 0 - x ELSE x

\* |a - b|, over the common denominator when there is one
RatDist(a, b) ==
    IF a[2] = b[2] THEN <<Abs(a[1] - b[1]), a[2]>>
    ELSE <<Abs(a[1] * b[2] - b[1] * a[2]), a[2] * b[2]>>

\* count / size >= 0.03
pokemon_to_show_all(tu) ==
    Keys(tu.top_cut_usage) \cup Keys(tu.all_usage)

pokemon_to_show(tu) ==
    Keys(tu.top_cut_usage) \cup
    {tu.all_usage[i][1] : i \in
        {k \in 1..Len(tu.all_usage) :
            100 * tu.all_usage[k][2].count >= 3 * tu.size}}

UsagePoint(tu, pokemon) ==
    [total_usage_rate |-> <<Get(tu.all_usage, pokemon).count, tu.size>>,
     top_cut_usage_rate |->
        IF Has(tu.top_cut_usage, pokemon)
        THEN <<Get(tu.top_cut_usage, pokemon).count, tu.top_cut_size>>
        ELSE <<0, 1>>,
     label |-> pokemon]

\* key=lambda point: (point.top_cut_usage_rate, point.total_usage_rate)
PointKeyLess(p, q) ==
    \/ RatLess(p.top_cut_usage_rate, q.top_cut_usage_rate)
    \/ /\ RatEq(p.top_cut_usage_rate, q.top_cut_usage_rate)
       /\ RatLess(p.total_usage_rate, q.total_usage_rate)

\* sorted(usage_points, key=..., reverse=True)
SortPoints(points) ==
    StableSort(points, [i \in 1..Len(points) |-> [j \in 1..Len(points) |->
        PointKeyLess(points[j], points[i])]])

\* The sets of a Python build iterate in an order of their own.
Orders(S) ==
    {f \in [1..Cardinality(S) -> S] : {f[i] : i \in 1..Cardinality(S)} = S}

\* The exact distance of two points against the threshold.  A difference
\* above the threshold on one axis decides it (and keeps the products small).
DistanceCmp(p, q) ==
    LET dx == RatDist(p.total_usage_rate, q.total_usage_rate)
        dy == RatDist(p.top_cut_usage_rate, q.top_cut_usage_rate)
        t == POINT_DISTANCE_LABEL_ADJUSTMENT_THRESHOLD
        u == 10000 \div t
    IN  IF 10000 * dx[1] > t * dx[2] \/ 10000 * dy[1] > t * dy[2] THEN "above"
        ELSE LET lhs == u * u * (dx[1] * dx[1] * dy[2] * dy[2]
                                 + dy[1] * dy[1] * dx[2] * dx[2])
                 rhs == dx[2] * dx[2] * dy[2] * dy[2]
             IN  IF lhs < rhs THEN "below"
                 ELSE IF lhs > rhs THEN "above" ELSE "equal"

\* distance_between_points <= THRESHOLD as the floats decide it: the rounding
\* of the subtraction, the squares and the root settles a distance that is
\* exactly the threshold either way (0.09 - 0.08 <= 0.01 < 0.04 - 0.03).
IsClose_never(p, q) == {FALSE}

IsClose(p, q) ==
    CASE DistanceCmp(p, q) = "below" -> {TRUE}
      [] DistanceCmp(p, q) = "above" -> {FALSE}
      [] OTHER -> {TRUE, FALSE}

----------------------------------------------------------------------------
(* get_teams and get_top_cut_teams: one action per answer read.            *)

\* An answer get_teams rejects: it prints the message and asks again.
GetTeamsAgain ==
    /\ pc = "get_teams"
    /\ retries < MaxRetries
    /\ \E line \in Answers :
        /\ line # ""
        /\ \/ ~IsInt(line) /\ field_size' = field_size
           \/ IsInt(line) /\ field_size_rejected(int(line))
                          /\ field_size' = int(line)
        /\ answer' = line
    /\ retries' = retries + 1
    /\ UNCHANGED <<pc, parsed_standings, day_one_rounds, teams, top_cut_size,
                   top_cut_teams, placing, pokemon_used, pkmn,
                   all_pokemon_statistics, all_usage_stats, top_cut_usage_stats,
                   tournament_usage, usage_file, all_json, top_cut_json,
                   usage_points, index, label_padding, labels, plots>>

\* The empty line or a positive number: get_teams returns.
GetTeamsReturn ==
    /\ pc = "get_teams"
    /\ \E line \in Answers :
        /\ \/ line = "" /\ field_size' = field_size
           \/ IsInt(line) /\ ~field_size_rejected(int(line))
                          /\ field_size' = int(line)
        /\ answer' = line
    /\ teams' = Slice(parsed_standings, field_size')
    /\ pc' = "get_top_cut_teams"
    /\ retries' = 0
    /\ top_cut_size' = 0
    /\ UNCHANGED <<parsed_standings, day_one_rounds, top_cut_teams, placing,
                   pokemon_used, pkmn, all_pokemon_statistics, all_usage_stats,
                   top_cut_usage_stats, tournament_usage, usage_file, all_json,
                   top_cut_json, usage_points, index, label_padding, labels,
                   plots>>

GetTopCutTeamsAgain ==
    /\ pc = "get_top_cut_teams"
    /\ retries < MaxRetries
    /\ \E line \in Answers :
        /\ \/ ~IsInt(line) /\ top_cut_size' = top_cut_size
           \/ IsInt(line) /\ top_cut_size_rejected(int(line), Len(teams))
                          /\ top_cut_size' = int(line)
        /\ answer' = line
    /\ retries' = retries + 1
    /\ UNCHANGED <<pc, parsed_standings, day_one_rounds, field_size, teams,
                   top_cut_teams, placing, pokemon_used, pkmn,
                   all_pokemon_statistics, all_usage_stats, top_cut_usage_stats,
                   tournament_usage, usage_file, all_json, top_cut_json,
                   usage_points, index, label_padding, labels, plots>>

GetTopCutTeamsReturn ==
    /\ pc = "get_top_cut_teams"
    /\ \E line \in Answers :
        /\ IsInt(line)
        /\ ~top_cut_size_rejected(int(line), Len(teams))
        /\ top_cut_size' = int(line)
        /\ answer' = line
    /\ top_cut_teams' = Slice(teams, top_cut_size')
    /\ pc' = "calculate_all"
    /\ UNCHANGED <<parsed_standings, day_one_rounds, retries, field_size, teams,
                   placing, pokemon_used, pkmn, all_pokemon_statistics,
                   all_usage_stats, top_cut_usage_stats, tournament_usage,
                   usage_file, all_json, top_cut_json, usage_points, index,
                   label_padding, labels, plots>>

----------------------------------------------------------------------------
(* calculate_usage_statistics, called on teams and then on top_cut_teams.  *)

Calculating == pc \in {"calculate_all", "calculate_top_cut"}

CalcInput == IF pc = "calculate_all" THEN teams ELSE top_cut_teams

\* Line 214: open() of a file that is not on disk raises FileNotFoundError;
\* nothing catches it, in calculate_usage_statistics or in main.
open_raises(team) == team.document = "missing"

\* Lines 215-218: html.parser builds a tree of whatever text the file holds
\* and find_all returns the divs of class pkmn in it, none for a file that
\* is not a team sheet.
find_all_pkmn(team) == IF team.document = "sheet" THEN team.roster ELSE <<>>

\* Lines 212-218: the next team's sheet is opened and parsed; the loop over a
\* sheet with no entry makes no pass and the next team is taken.
OpenTeam ==
    /\ Calculating
    /\ pokemon_used = <<>>
    /\ placing < Len(CalcInput)
    /\ ~open_raises(CalcInput[placing + 1])
    /\ pokemon_used' = find_all_pkmn(CalcInput[placing + 1])
    /\ pkmn' = 0
    /\ placing' = IF pokemon_used' = <<>> THEN placing + 1 ELSE placing
    /\ UNCHANGED <<pc, parsed_standings, day_one_rounds, answer, retries,
                   field_size, teams, top_cut_size, top_cut_teams,
                   all_pokemon_statistics, all_usage_stats, top_cut_usage_stats,
                   tournament_usage, usage_file, all_json, top_cut_json,
                   usage_points, index, label_padding, labels, plots>>

\* Line 214 raising: the exception leaves calculate_usage_statistics and
\* main, and the run ends with what it had written so far.
OpenRaises ==
    /\ Calculating
    /\ pokemon_used = <<>>
    /\ placing < Len(CalcInput)
    /\ open_raises(CalcInput[placing + 1])
    /\ pc' = "raised"
    /\ UNCHANGED <<parsed_standings, day_one_rounds, answer, retries,
                   field_size, teams, top_cut_size, top_cut_teams, placing,
                   pokemon_used, pkmn, all_pokemon_statistics, all_usage_stats,
                   top_cut_usage_stats, tournament_usage, usage_file, all_json,
                   top_cut_json, usage_points, index, label_padding, labels,
                   plots>>

\* Lines 219-258: one pass of the loop over pokemon_used.
AddEntry ==
    /\ Calculating
    /\ pokemon_used # <<>>
    /\ all_pokemon_statistics' =
            AddPokemon(all_pokemon_statistics, pokemon_used, pkmn + 1, placing)
    /\ IF pkmn + 1 < Len(pokemon_used)
       THEN /\ pkmn' = pkmn + 1
            /\ UNCHANGED <<pokemon_used, placing>>
       ELSE /\ pkmn' = 0
            /\ pokemon_used' = <<>>
            /\ placing' = placing + 1
    /\ UNCHANGED <<pc, parsed_standings, day_one_rounds, answer, retries,
                   field_size, teams, top_cut_size, top_cut_teams,
                   all_usage_stats, top_cut_usage_stats, tournament_usage,
                   usage_file, all_json, top_cut_json, usage_points, index,
                   label_padding, labels, plots>>

Returning == Calculating /\ pokemon_used = <<>> /\ placing = Len(CalcInput)

\* Line 260 of the first call, and main's line 36.
ReturnAll ==
    /\ pc = "calculate_all"
    /\ Returning
    /\ all_usage_stats' = all_pokemon_statistics
    /\ all_pokemon_statistics' = <<>>
    /\ placing' = 0
    /\ pc' = "calculate_top_cut"
    /\ UNCHANGED <<parsed_standings, day_one_rounds, answer, retries,
                   field_size, teams, top_cut_size, top_cut_teams, pokemon_used,
                   pkmn, top_cut_usage_stats, tournament_usage, usage_file,
                   all_json, top_cut_json, usage_points, index, label_padding,
                   labels, plots>>

\* Line 260 of the second call, and main's line 37.
ReturnTopCut ==
    /\ pc = "calculate_top_cut"
    /\ Returning
    /\ top_cut_usage_stats' = all_pokemon_statistics
    /\ all_pokemon_statistics' = <<>>
    /\ placing' = 0
    /\ pc' = "TournamentUsage"
    /\ UNCHANGED <<parsed_standings, day_one_rounds, answer, retries,
                   field_size, teams, top_cut_size, top_cut_teams, pokemon_used,
                   pkmn, all_usage_stats, tournament_usage, usage_file,
                   all_json, top_cut_json, usage_points, index, label_padding,
                   labels, plots>>

----------------------------------------------------------------------------
(* main, lines 38-45 *)

Construct ==
    /\ pc = "TournamentUsage"
    /\ tournament_usage' = TournamentUsage(Len(top_cut_teams), top_cut_usage_stats,
                                           Len(teams), all_usage_stats)
    /\ pc' = "write_usage_to_file"
    /\ UNCHANGED <<parsed_standings, day_one_rounds, answer, retries,
                   field_size, teams, top_cut_size, top_cut_teams, placing,
                   pokemon_used, pkmn, all_pokemon_statistics, all_usage_stats,
                   top_cut_usage_stats, usage_file, all_json, top_cut_json,
                   usage_points, index, label_padding, labels, plots>>

WriteUsageToFile ==
    /\ pc = "write_usage_to_file"
    /\ usage_file' =
         << [header |-> "Top cut", size |-> tournament_usage.top_cut_size,
             stats |-> write_usage_stats(tournament_usage.top_cut_usage,
                                         tournament_usage.top_cut_size)],
            [header |-> "Entrants", size |-> tournament_usage.size,
             stats |-> write_usage_stats(tournament_usage.all_usage,
                                         tournament_usage.size)] >>
    /\ all_json' = JsonEncode(tournament_usage.all_usage)
    /\ top_cut_json' = JsonEncode(tournament_usage.top_cut_usage)
    /\ pc' = "create_graph"
    /\ UNCHANGED <<parsed_standings, day_one_rounds, answer, retries,
                   field_size, teams, top_cut_size, top_cut_teams, placing,
                   pokemon_used, pkmn, all_pokemon_statistics, all_usage_stats,
                   top_cut_usage_stats, tournament_usage, usage_points, index,
                   label_padding, labels, plots>>

\* Lines 488-515: the points, sorted, and the first padding.
CreateGraph ==
    /\ pc = "create_graph"
    /\ usage_points' \in
            {SortPoints([i \in 1..Len(order) |->
                            UsagePoint(tournament_usage, order[i])]) :
                order \in LET shown == pokemon_to_show(tournament_usage)
                          IN  Orders(shown)}
    /\ label_padding' = DEFAULT_LABEL_PADDING
    /\ index' = 0
    /\ pc' = "labels"
    /\ UNCHANGED <<parsed_standings, day_one_rounds, answer, retries,
                   field_size, teams, top_cut_size, top_cut_teams, placing,
                   pokemon_used, pkmn, all_pokemon_statistics, all_usage_stats,
                   top_cut_usage_stats, tournament_usage, usage_file, all_json,
                   top_cut_json, labels, plots>>

\* Lines 516-535: one pass of the label loop.
LabelPoint ==
    /\ pc = "labels"
    /\ index < Len(usage_points)
    /\ LET usage_point == usage_points[index + 1]
       IN  \E close \in IF index > 0
                        THEN IsClose(usage_point, usage_points[index])
                        ELSE {FALSE} :
             /\ label_padding' =
                    IF index > 0
                    THEN IF close THEN label_padding + LABEL_PADDING_INCREMENT
                         ELSE DEFAULT_LABEL_PADDING
                    ELSE label_padding
             /\ labels' = Append(labels,
                    [x |-> usage_point.total_usage_rate,
                     y |-> usage_point.top_cut_usage_rate,
                     padding |-> label_padding',
                     text |-> usage_point.label,
                     close |-> close])
    /\ index' = index + 1
    /\ UNCHANGED <<pc, parsed_standings, day_one_rounds, answer, retries,
                   field_size, teams, top_cut_size, top_cut_teams, placing,
                   pokemon_used, pkmn, all_pokemon_statistics, all_usage_stats,
                   top_cut_usage_stats, tournament_usage, usage_file, all_json,
                   top_cut_json, usage_points, plots>>

first_key_in_dict(d) == d[1][1]

\* Lines 547-564: the two images; the zoomed-out axes end at the most used
\* Pokemon's rate plus AXIS_MAX_BUFFER.
SavePlots ==
    /\ pc = "labels"
    /\ index = Len(usage_points)
    /\ tournament_usage.all_usage # <<>>
    /\ tournament_usage.top_cut_usage # <<>>
    /\ LET most_used == first_key_in_dict(tournament_usage.all_usage)
           most_used_in_top_cut == first_key_in_dict(tournament_usage.top_cut_usage)
       IN  plots' =
            << [file |-> "Zoomed-In", labels |-> labels],
               [file |-> "Zoomed-Out", labels |-> labels,
                xlim |-> <<Get(tournament_usage.all_usage, most_used).count,
                           tournament_usage.size>>,
                ylim |-> <<Get(tournament_usage.top_cut_usage,
                               most_used_in_top_cut).count,
                           tournament_usage.top_cut_size>>] >>
    /\ pc' = "done"
    /\ UNCHANGED <<parsed_standings, day_one_rounds, answer, retries,
                   field_size, teams, top_cut_size, top_cut_teams, placing,
                   pokemon_used, pkmn, all_pokemon_statistics, all_usage_stats,
                   top_cut_usage_stats, tournament_usage, usage_file, all_json,
                   top_cut_json, usage_points, index, label_padding, labels>>

----------------------------------------------------------------------------
(* The initial states *)

RoundCounts == {2, 3, 5}

DayOneRounds == {1, 5}

\* What the file of a row's team sheet holds on disk: the sheet, nothing (no
\* file), or text that is not a team sheet (download_teamsheets, lines
\* 127-131, saves whatever the server answered).
Documents == {"sheet", "missing", "unreadable"}

Row(i, rounds, roster) ==
    [placing |-> i, rounds |-> rounds, roster |-> roster, document |-> "sheet"]

\* A row whose file is not a team sheet: it yields no entry.
FaultyRow(i, rounds, document) ==
    [placing |-> i, rounds |-> rounds, roster |-> <<>>, document |-> document]

NoUsage == [top_cut_size |-> 0, top_cut_usage |-> <<>>, size |-> 0, all_usage |-> <<>>]

BlankRun ==
    /\ retries = 0
    /\ placing = 0
    /\ pokemon_used = <<>>
    /\ pkmn = 0
    /\ all_pokemon_statistics = <<>>
    /\ all_usage_stats = <<>>
    /\ top_cut_usage_stats = <<>>
    /\ usage_file = <<>>
    /\ all_json = <<>>
    /\ top_cut_json = <<>>
    /\ usage_points = <<>>
    /\ index = 0
    /\ label_padding = DEFAULT_LABEL_PADDING
    /\ labels = <<>>
    /\ plots = <<>>

\* The team sheet of a row of the standings family, by its round count.
SheetOf(rounds) ==
    CASE rounds = 2 -> <<AmoongussBerry, FlutterMane>>
      [] rounds = 3 -> <<Amoonguss, IronHands>>
      [] OTHER -> <<IronHands>>

\* main at line 34: standings of up to MaxTeams rows with any recorded round
\* counts, each round count with a team sheet of its own.
InitStandings ==
    /\ pc = "get_teams"
    /\ \E n \in 0..MaxTeams : \E rounds \in [1..n -> RoundCounts] :
         parsed_standings = [i \in 1..n |-> Row(i, rounds[i], SheetOf(rounds[i]))]
    /\ day_one_rounds \in DayOneRounds
    /\ field_size = 0 - 1
    /\ teams = <<>>
    /\ top_cut_size = 0
    /\ top_cut_teams = <<>>
    /\ tournament_usage = NoUsage
    /\ answer = None
    /\ BlankRun

\* main at line 36: a field of up to MaxTeams teams with any team sheets, and
\* the top cut get_top_cut_teams returns of it for the size it accepted; the
\* teams of the top cut are those that played on.
InitField ==
    /\ pc = "calculate_all"
    /\ \E n \in 1..MaxTeams : \E k \in 1..n : \E sheets \in [1..n -> Rosters] :
         /\ parsed_standings =
                [i \in 1..n |-> Row(i, IF i <= k THEN 5 ELSE 2, sheets[i])]
         /\ teams = parsed_standings
         /\ field_size = n
         /\ top_cut_size = k
         /\ top_cut_teams = Slice(teams, top_cut_size)
         /\ answer = Numerals[k + 1]
    /\ day_one_rounds = 5
    /\ tournament_usage = NoUsage
    /\ BlankRun

\* main at line 36: a field of the standings family in which the file of one
\* team sheet is missing or is not a team sheet.
InitDocuments ==
    /\ pc = "calculate_all"
    /\ \E n \in 1..MaxTeams : \E k \in 1..n : \E f \in 1..n :
       \E document \in Documents \ {"sheet"} :
         /\ parsed_standings =
                [i \in 1..n |->
                    LET rounds == IF i <= k THEN 5 ELSE 2
                    IN  IF i = f THEN FaultyRow(i, rounds, document)
                        ELSE Row(i, rounds, SheetOf(rounds))]
         /\ teams = parsed_standings
         /\ field_size = n
         /\ top_cut_size = k
         /\ top_cut_teams = Slice(teams, top_cut_size)
         /\ answer = Numerals[k + 1]
    /\ day_one_rounds = 5
    /\ tournament_usage = NoUsage
    /\ BlankRun

Init == InitStandings \/ InitField \/ InitDocuments

\* main at line 45 for a field too large to keep row by row: 200 teams with
\* a top cut of 128, and four Pokemon with their numbers of users in the
\* field and in the top cut.  Only the counts of the tables are kept.
LargeField == [size |-> 200, top_cut_size |-> 128]

LargeNames == <<"Amoonguss", "Flutter Mane", "Iron Hands", "Urshifu">>

LargeCounts == {5, 6, 16, 17, 18}

LargeTopCounts == {0, 1}

CountTable(count) ==
    LET used == SelectSeq(LargeNames, LAMBDA n : count[n] > 0)
    IN  [i \in 1..Len(used) |->
            <<used[i], [PokemonStats EXCEPT !.count = count[used[i]]]>>]

InitLargeField ==
    /\ pc = "create_graph"
    /\ \E all \in [Keys([i \in 1..Len(LargeNames) |-> <<LargeNames[i], 0>>])
                    -> LargeCounts] :
       \E top \in [DOMAIN all -> LargeTopCounts] :
         /\ ~(\A n \in DOMAIN top : top[n] = 0)
         /\ all_usage_stats = CountTable(all)
         /\ top_cut_usage_stats = CountTable(top)
         /\ tournament_usage =
                TournamentUsage(LargeField.top_cut_size, top_cut_usage_stats,
                                LargeField.size, all_usage_stats)
    /\ parsed_standings = <<>>
    /\ day_one_rounds = 5
    /\ field_size = LargeField.size
    /\ teams = <<>>
    /\ top_cut_size = LargeField.top_cut_size
    /\ top_cut_teams = <<>>
    /\ answer = None
    /\ retries = 0
    /\ placing = 0
    /\ pokemon_used = <<>>
    /\ pkmn = 0
    /\ all_pokemon_statistics = <<>>
    /\ usage_file = <<>>
    /\ all_json = <<>>
    /\ top_cut_json = <<>>
    /\ usage_points = <<>>
    /\ index = 0
    /\ label_padding = DEFAULT_LABEL_PADDING
    /\ labels = <<>>
    /\ plots = <<>>

Next ==
    \/ GetTeamsAgain
    \/ GetTeamsReturn
    \/ GetTopCutTeamsAgain
    \/ GetTopCutTeamsReturn
    \/ OpenTeam
    \/ OpenRaises
    \/ AddEntry
    \/ ReturnAll
    \/ ReturnTopCut
    \/ Construct
    \/ WriteUsageToFile
    \/ CreateGraph
    \/ LabelPoint
    \/ SavePlots

Spec == Init /\ [][Next]_vars

SpecLargeField == (Init \/ InitLargeField) /\ [][Next]_vars

----------------------------------------------------------------------------
(* The claims about calculate_usage_statistics *)

Lists(row, name) == \E j \in 1..Len(row.roster) : row.roster[j].name = name

UsersOf(input, name) == Cardinality({i \in 1..Len(input) : Lists(input[i], name)})

ListedIn(input) ==
    UNION {{input[i].roster[j].name : j \in 1..Len(input[i].roster)} :
                i \in 1..Len(input)}

OncePerRoster(input) ==
    \A i \in 1..Len(input) : \A j, k \in 1..Len(input[i].roster) :
        j # k => input[i].roster[j].name # input[i].roster[k].name

CountsMatch(table, input) ==
    /\ Keys(table) = ListedIn(input)
    /\ \A i, j \in 1..Len(table) : i # j => table[i][1] # table[j][1]
    /\ \A i \in 1..Len(table) :
        /\ table[i][2].count = UsersOf(input, table[i][1])
        /\ table[i][2].count >= 1

\* The first call has returned (a run that raised in it returned no table).
AfterAll ==
    pc \notin {"get_teams", "get_top_cut_teams", "calculate_all", "raised"}

AfterTopCut == AfterAll /\ pc # "calculate_top_cut"

\* C1: when calculate_usage_statistics has processed the whole of a sequence
\* of competitors whose rosters list each name at most once, the table it
\* returns has a record for exactly the names some roster lists, and the
\* count of each record is the number of competitors whose roster lists it
\* (so at least 1).
C1_CountIsNumberOfUsers ==
    /\ Returning /\ OncePerRoster(CalcInput)
            => CountsMatch(all_pokemon_statistics, CalcInput)
    /\ AfterAll /\ OncePerRoster(teams) => CountsMatch(all_usage_stats, teams)
    /\ AfterTopCut /\ OncePerRoster(top_cut_teams)
            => CountsMatch(top_cut_usage_stats, top_cut_teams)

C1_Witness ==
    /\ pc = "calculate_all"
    /\ Returning
    /\ Len(teams) = 2
    /\ OncePerRoster(teams)
    /\ \E i, j \in 1..Len(all_pokemon_statistics) :
        /\ all_pokemon_statistics[i][2].count = 2
        /\ all_pokemon_statistics[j][2].count = 1

SumsMatch(table) ==
    \A i \in 1..Len(table) :
        LET s == table[i][2]
        IN  /\ SumValues(s.item) = s.count
            /\ SumValues(s.ability) = s.count
            /\ SumValues(s.tera) = s.count

\* The appearances of a name, in the finished teams of the input and in the
\* entries done of the open one, that have no tera type.
UntypedAppearances(name) ==
    LET done == {<<i, j>> \in (1..placing) \X (1..MaxRoster + 1) :
                    j <= Len(CalcInput[i].roster)}
        open == IF pokemon_used = <<>> THEN {}
                ELSE {<<placing + 1, j>> : j \in 1..pkmn}
    IN  Cardinality({p \in done \cup open :
            /\ CalcInput[p[1]].roster[p[2]].name = name
            /\ CalcInput[p[1]].roster[p[2]].tera = None})

\* C2: between any two passes of the loop over the roster entries, each
\* record's item map sums to its count, and so do its ability map and its tera
\* map, where an entry without a type is counted under 'default'.  (The
\* attacks map need not: the witness has one that does not.)
C2_MapsSumToCount ==
    /\ SumsMatch(all_pokemon_statistics)
    /\ SumsMatch(all_usage_stats)
    /\ SumsMatch(top_cut_usage_stats)
    /\ Calculating =>
        \A i \in 1..Len(all_pokemon_statistics) :
            GetOr(all_pokemon_statistics[i][2].tera, "default", 0)
                = UntypedAppearances(all_pokemon_statistics[i][1])

C2_Witness ==
    /\ Calculating
    /\ pokemon_used # <<>>
    /\ pkmn >= 1
    /\ \E i, j \in 1..Len(all_pokemon_statistics) :
        LET s == all_pokemon_statistics[i][2]
            t == all_pokemon_statistics[j][2]
        IN  /\ s.count = 2
            /\ Len(s.item) = 2
            /\ GetOr(s.tera, "default", 0) = 1
            /\ SumValues(s.attacks) # s.count
            /\ t.count = 1
            /\ SumValues(t.attacks) = 2

TeammateCount(table, a, b) ==
    IF Has(table, a) THEN GetOr(Get(table, a).teammates, b, 0) ELSE 0

Symmetric(table) ==
    \A a, b \in Keys(table) : TeammateCount(table, a, b) = TeammateCount(table, b, a)

NoSelf(table) == \A a \in Keys(table) : ~Has(Get(table, a).teammates, a)

TeammatesGrow ==
    Calculating /\ pc' = pc =>
        \A a \in Keys(all_pokemon_statistics) :
            \A b \in Keys(Get(all_pokemon_statistics, a).teammates) :
                TeammateCount(all_pokemon_statistics', a, b)
                    >= TeammateCount(all_pokemon_statistics, a, b)

\* C3: in the table calculate_usage_statistics returns, A's teammates map
\* holds for B what B's holds for A (0 where absent); no Pokemon is ever in its
\* own teammates map, and no pass of the loop lowers a teammate counter.
C3_TeammatesSymmetric ==
    /\ [](/\ Returning => Symmetric(all_pokemon_statistics)
          /\ Symmetric(all_usage_stats)
          /\ Symmetric(top_cut_usage_stats)
          /\ NoSelf(all_pokemon_statistics)
          /\ NoSelf(all_usage_stats)
          /\ NoSelf(top_cut_usage_stats))
    /\ [][TeammatesGrow]_vars

C3_Witness ==
    /\ pc = "calculate_all"
    /\ Returning
    /\ TeammateCount(all_pokemon_statistics, "Amoonguss", "Flutter Mane") = 2
    /\ TeammateCount(all_pokemon_statistics, "Flutter Mane", "Amoonguss") = 2
    /\ TeammateCount(all_pokemon_statistics, "Iron Hands", "Amoonguss") = 0

----------------------------------------------------------------------------
(* The claims about get_teams and get_top_cut_teams *)

\* get_top_cut_teams has just returned.
TopCutReturned == pc = "calculate_all" /\ placing = 0 /\ pokemon_used = <<>>

\* get_teams has just returned.
TeamsReturned == pc = "get_top_cut_teams" /\ retries = 0

OutOfRange(line, n) == IsInt(line) /\ (int(line) < 1 \/ int(line) > n)

FirstK(k) ==
    /\ 1 <= k /\ k <= Len(teams)
    /\ top_cut_teams = SubSeq(teams, 1, k)
    /\ Len(top_cut_teams) = k
    /\ k = Len(teams) => top_cut_teams = teams

\* C4 as claimed: an answer k with 1 <= k <= n returns the first k
\* competitors, and an answer outside that range fails the call at once: the
\* selector is never found asking again after it read one.
C4_FailsFast ==
    /\ TopCutReturned => FirstK(top_cut_size)
    /\ ~(pc = "get_top_cut_teams" /\ retries >= 1
            /\ OutOfRange(answer, Len(teams)))

\* C4 as the code has it: an answer k with 1 <= k <= n returns the first k
\* competitors in their order (all of them when k = n); an answer outside
\* that range is rejected by asking again, with nothing returned, and what is
\* returned in the end is cut at the answer that was accepted, never at a
\* rejected or a clamped one.
C4_RejectsAndAsksAgain ==
    /\ TopCutReturned =>
        /\ IsInt(answer)
        /\ ~OutOfRange(answer, Len(teams))
        /\ top_cut_size = int(answer)
        /\ FirstK(top_cut_size)
    /\ pc = "get_top_cut_teams" =>
        /\ top_cut_teams = <<>>
        /\ retries >= 1 => ~IsInt(answer) \/ OutOfRange(answer, Len(teams))

C4_Witness ==
    /\ TopCutReturned
    /\ retries >= 1
    /\ Len(teams) = 2
    /\ top_cut_size = 1
    /\ top_cut_teams = <<teams[1]>>

\* C7: the empty line makes get_teams return every row of the standings, in
\* their order, and a positive number m the first min(m, number of rows).
C7_EnterForAll ==
    TeamsReturned =>
        /\ answer = "" => teams = parsed_standings
        /\ IsInt(answer) =>
                teams = SubSeq(parsed_standings, 1,
                               Min(int(answer), Len(parsed_standings)))

Kept(row) == \E j \in 1..Len(top_cut_teams) : top_cut_teams[j] = row

SwissCut(row) == row.rounds >= day_one_rounds - 2

\* C10 as claimed: the selector keeps exactly the competitors whose recorded
\* round count is at least the day-one round count less 2, in their order.
C10_SwissCutoff ==
    TopCutReturned => top_cut_teams = SelectSeq(teams, SwissCut)

\* C10 as the code has it: there is no Swiss cutoff.  Whatever the recorded
\* round counts, the selector keeps a competitor exactly when its position is
\* at most the accepted size, in the original order, and so never returns
\* zero competitors.
C10_CutByPosition ==
    TopCutReturned =>
        /\ \A i \in 1..Len(teams) : Kept(teams[i]) <=> i <= top_cut_size
        /\ \A j \in 1..Len(top_cut_teams) : top_cut_teams[j] = teams[j]
        /\ Len(top_cut_teams) >= 1

C10_Witness ==
    /\ TopCutReturned
    /\ Len(teams) = 2
    /\ Kept(teams[1]) /\ ~SwissCut(teams[1])
    /\ ~Kept(teams[2]) /\ SwissCut(teams[2])

----------------------------------------------------------------------------
(* The claims about the ranking and the report *)

Constructed == pc \in {"write_usage_to_file", "create_graph", "labels", "done"}

Written == pc \in {"create_graph", "labels", "done"}

\* The lines of a list of the report, each [number, name, percentage, count]:
\* among neighbours of equal count the smaller name comes first.
TiesAscend(lines) ==
    \A i \in 1..(Len(lines) - 1) :
        lines[i].count = lines[i + 1].count
            => StrLess(lines[i].name, lines[i + 1].name)

CountsDescend(lines) ==
    \A i \in 1..(Len(lines) - 1) : lines[i].count >= lines[i + 1].count

TopLines(block) == [i \in 1..Len(block.stats) |-> block.stats[i].line]

NestedLists(block) ==
    UNION {{block.stats[i].Ability, block.stats[i].Tera, block.stats[i].Item,
            block.stats[i].Attacks, block.stats[i].Teammates} :
                i \in 1..Len(block.stats)}

\* C5: both rankings are by count, descending, and break ties on the name in
\* the same direction: where the report lists Pokemon of equal count with the
\* smaller name first, it lists the keys of equal count of every item,
\* ability, tera, attacks and teammates map with the smaller name first too.
C5_SameTieBreak ==
    Written =>
        \A b \in 1..Len(usage_file) :
            /\ CountsDescend(TopLines(usage_file[b]))
            /\ \A l \in NestedLists(usage_file[b]) : CountsDescend(l)
            /\ TiesAscend(TopLines(usage_file[b]))
                    => \A l \in NestedLists(usage_file[b]) : TiesAscend(l)

RankedOrder(usage) ==
    \A i \in 1..(Len(usage) - 1) :
        \/ usage[i][2].count > usage[i + 1][2].count
        \/ /\ usage[i][2].count = usage[i + 1][2].count
           /\ StrLess(usage[i][1], usage[i + 1][1])

Members(d) == {d[i] : i \in 1..Len(d)}

\* The table with its members inserted in another order.
Reinserted(d) ==
    {[i \in 1..Len(o) |-> o[i]] : o \in LET m == Members(d) IN Orders(m)}

\* C6: the mappings TournamentUsage holds iterate by count, never rising,
\* and by name, ascending, among equal counts; that order is the same
\* whatever the insertion order of the table ranked (compared where the
\* constructor returns: no later step assigns the mappings), and it is the
\* order of the report and of the JSON snapshots.
C6_RankedOrder ==
    /\ Constructed =>
        /\ RankedOrder(tournament_usage.all_usage)
        /\ RankedOrder(tournament_usage.top_cut_usage)
        /\ Members(tournament_usage.all_usage) = Members(all_usage_stats)
        /\ Members(tournament_usage.top_cut_usage) = Members(top_cut_usage_stats)
    /\ pc = "write_usage_to_file" =>
        /\ \A d \in Reinserted(all_usage_stats) :
                Ranked(d) = tournament_usage.all_usage
        /\ \A d \in Reinserted(top_cut_usage_stats) :
                Ranked(d) = tournament_usage.top_cut_usage
    /\ Written =>
        /\ [i \in 1..Len(usage_file[1].stats) |-> usage_file[1].stats[i].line.name]
                = KeySeq(tournament_usage.top_cut_usage)
        /\ [i \in 1..Len(usage_file[2].stats) |-> usage_file[2].stats[i].line.name]
                = KeySeq(tournament_usage.all_usage)
        /\ [i \in 1..Len(all_json) |-> all_json[i].key]
                = KeySeq(tournament_usage.all_usage)
        /\ [i \in 1..Len(top_cut_json) |-> top_cut_json[i].key]
                = KeySeq(tournament_usage.top_cut_usage)

\* Two Pokemon of equal count were inserted with the larger name first and
\* are written with the smaller name first.
C6_Witness ==
    /\ Written
    /\ teams # <<>>
    /\ \E i \in 1..(Len(all_json) - 1) :
        /\ all_json[i].value.count = all_json[i + 1].value.count
        /\ StrLess(all_json[i].key, all_json[i + 1].key)
        /\ Pos(all_usage_stats, all_json[i].key)
                > Pos(all_usage_stats, all_json[i + 1].key)
        /\ usage_file[2].stats[i].line.name = all_json[i].key

----------------------------------------------------------------------------
(* The claims about create_graph *)

Graphed == pc \in {"labels", "done"}

Count(usage, name) == Get(usage, name).count

AboveFloor(tu) ==
    {n \in Keys(tu.all_usage) : 100 * Count(tu.all_usage, n) >= 3 * tu.size}

Labels(points) == {points[i].label : i \in 1..Len(points)}

\* a / b > c / d and a / b = c / d
Greater(r, q) == r[1] * q[2] > q[1] * r[2]

Same(r, q) == r[1] * q[2] = q[1] * r[2]

\* C8: the points of the graph are, once each, the Pokemon of the top-cut
\* table and those of the full-field table with count / size >= 0.03; a
\* point's total rate is its full-field count over the field size, its
\* top-cut rate its top-cut count over the top-cut size, or 0 for a Pokemon
\* not in the top-cut table; every point has a record in the full-field
\* table; and the points are labelled in descending order of
\* (top-cut rate, total rate).
C8_PointSelection ==
    Graphed =>
        LET tu == tournament_usage
            n == Len(usage_points)
        IN  /\ Labels(usage_points) = Keys(tu.top_cut_usage) \cup AboveFloor(tu)
            /\ n = Cardinality(Labels(usage_points))
            /\ Labels(usage_points) \subseteq Keys(tu.all_usage)
            /\ \A i \in 1..n :
                LET p == usage_points[i]
                IN  /\ p.total_usage_rate = <<Count(tu.all_usage, p.label), tu.size>>
                    /\ p.label \in Keys(tu.top_cut_usage) =>
                        p.top_cut_usage_rate =
                            <<Count(tu.top_cut_usage, p.label), tu.top_cut_size>>
                    /\ p.label \notin Keys(tu.top_cut_usage) =>
                        p.top_cut_usage_rate[1] = 0
            /\ \A i \in 1..(n - 1) :
                LET p == usage_points[i]
                    q == usage_points[i + 1]
                IN  \/ Greater(p.top_cut_usage_rate, q.top_cut_usage_rate)
                    \/ /\ Same(p.top_cut_usage_rate, q.top_cut_usage_rate)
                       /\ ~Greater(q.total_usage_rate, p.total_usage_rate)
            /\ \A i \in 1..Len(labels) :
                /\ labels[i].text = usage_points[i].label
                /\ labels[i].x = usage_points[i].total_usage_rate
                /\ labels[i].y = usage_points[i].top_cut_usage_rate

\* A Pokemon under the floor is left out, one under the floor is shown for
\* being in the top cut, and one over the floor is shown with a top-cut rate
\* of 0.
C8_Witness ==
    /\ pc = "done"
    /\ tournament_usage.size = 200
    /\ \E a, b, c \in Keys(tournament_usage.all_usage) :
        /\ a \notin Labels(usage_points)
        /\ b \in Labels(usage_points)
        /\ Count(tournament_usage.all_usage, b) = 5
        /\ c \in Labels(usage_points)
        /\ c \notin Keys(tournament_usage.top_cut_usage)

\* The run of close steps that ends at the i-th label.
RECURSIVE CloseRun(_)
CloseRun(i) == IF i <= 1 \/ ~labels[i].close THEN 0 ELSE 1 + CloseRun(i - 1)

Point(l) == [total_usage_rate |-> l.x, top_cut_usage_rate |-> l.y]

\* The distance of the i-th labelled point to the one before it is d / 200,
\* along the axis of the total rate.
Apart(i, d) ==
    /\ labels[i].y = labels[i - 1].y
    /\ labels[i].x[2] = 200
    /\ labels[i - 1].x[2] = 200
    /\ Abs(labels[i].x[1] - labels[i - 1].x[1]) = d

\* C9: the first label has the default padding; every later label has the
\* padding of the label before it plus the increment if the distance of its
\* point to the point before is at most the threshold, as the program
\* computes it, and the default padding otherwise.  So a padding is the
\* default plus the increment times the run of close steps ending there:
\* three points 0.005 apart get rising paddings and a fourth, 0.05 from the
\* third, the default.
C9_LabelPadding ==
    /\ Len(labels) >= 1 => labels[1].padding = DEFAULT_LABEL_PADDING
    /\ \A i \in 2..Len(labels) :
        /\ labels[i].close =>
            labels[i].padding = labels[i - 1].padding + LABEL_PADDING_INCREMENT
        /\ ~labels[i].close => labels[i].padding = DEFAULT_LABEL_PADDING
        /\ DistanceCmp(Point(labels[i]), Point(labels[i - 1])) = "below"
                => labels[i].close
        /\ DistanceCmp(Point(labels[i]), Point(labels[i - 1])) = "above"
                => ~labels[i].close
    /\ \A i \in 1..Len(labels) :
        labels[i].padding
            = DEFAULT_LABEL_PADDING + LABEL_PADDING_INCREMENT * CloseRun(i)
    /\ \A i \in 4..Len(labels) :
        Apart(i - 2, 1) /\ Apart(i - 1, 1) /\ Apart(i, 10) =>
            /\ labels[i - 3].padding < labels[i - 2].padding
            /\ labels[i - 2].padding < labels[i - 1].padding
            /\ labels[i].padding = DEFAULT_LABEL_PADDING
    /\ pc = "labels" /\ index >= 1 => label_padding = labels[index].padding

C9_Witness ==
    /\ pc = "done"
    /\ Len(labels) = 4
    /\ Apart(2, 1) /\ Apart(3, 1) /\ Apart(4, 10)
    /\ labels[1].padding = 15
    /\ labels[2].padding = 40
    /\ labels[3].padding = 65
    /\ labels[4].padding = 15

----------------------------------------------------------------------------
(* The claim about a run that cannot complete *)

\* The files the run writes: the report, the two JSON snapshots, the plots.
Published ==
    \/ usage_file # <<>>
    \/ all_json # <<>>
    \/ top_cut_json # <<>>
    \/ plots # <<>>

\* The competitors of the field whose file is not their team sheet.
Faulty(input) == {i \in 1..Len(input) : input[i].document # "sheet"}

\* C11: a run never publishes partial statistics.  write_usage_to_file and
\* create_graph start only after both aggregations went over every
\* competitor; a competitor whose roster document is missing or is not a
\* readable team sheet is never passed over by the loop (the run ends at that
\* competitor), and a run with such a competitor writes no report, no JSON
\* snapshot and no plot.
C11_NeverPartial ==
    /\ Constructed =>
        /\ OncePerRoster(teams) => CountsMatch(all_usage_stats, teams)
        /\ OncePerRoster(top_cut_teams)
                => CountsMatch(top_cut_usage_stats, top_cut_teams)
    /\ Published => Written
    /\ Calculating => \A i \in Faulty(CalcInput) : placing < i
    /\ Faulty(teams) # {} => ~Constructed /\ ~Published

====
